---- MODULE Spec2Model ----
(***************************************************************************)
(* Model of the CellTypist cell type registry notebook                     *)
(* (src/unnamed/part_000): the reconciliation of the CellTypist table      *)
(* against the public Cell Ontology, the commit of the reconciled records  *)
(* and the registration of the unmapped high-hierarchy terms.              *)
(*                                                                         *)
(* Strings the code inspects character by character (cell type names and   *)
(* the "|"-joined synonyms field) are sequences of one-character strings,  *)
(* so that lower(), rstrip("s"), split("|") and the join are computed.     *)
(* Strings the code only compares or uses as keys (ontology ids,           *)
(* descriptions) are atoms.                                                *)
(***************************************************************************)
EXTENDS Integers, Sequences, FiniteSets, Bags, TLC

VARIABLES
    celltypist_df,        \* the CellTypist table: a sequence of rows
    celltype_bt,          \* the public Cell Ontology: ontology_id -> term
    heap,                 \* the CellType record objects of the session
    public_records,       \* from_values(...): the objects of the public records
    public_records_dict,  \* ontology_id -> object
    records_names,        \* label -> object
    i,                    \* index of the next row of the running loop
    pending,              \* unmapped high terms still to be handled
    db,                   \* the CellType registry: object -> stored attributes
    pc,                   \* the cell / statement about to run
    error,                \* exception that ended the run ("None" if none)
    runs,                 \* number of completed executions of the loop cell
    first_result,         \* result contents of the first execution of the loop cell
    search_results,       \* unmapped high term -> top hit of the search
    parents,              \* the parent links stored: pairs (record, parent record)
    records,              \* the collection passed to ln.save: a bag of objects
    go_bp,                \* the pathway library: a sequence of (key, genes) items
    go_bp_parsed,         \* ontology id -> (name, genes)
    go_i,                 \* index of the next item of the parsing loop
    pc_enrichr,           \* the cell of the pathway notebook about to run
    pathway_records,      \* the Pathway records made from the parsed ids
    all_genes,            \* the gene symbols of the library
    gene_records,         \* the Gene records made from the symbols
    gene_records_ids,     \* symbol -> Gene record
    linked_genes,         \* pathway ontology id -> the entries given to genes.set
    link_i,               \* index of the next pathway record of the linking loop
    adata,                \* the .obs annotations of the example dataset
    adata_subset,         \* the .obs annotations of the subset
    run_context,          \* the tracked transform and its run
    run_inputs,           \* run -> keys of the files recorded as its inputs
    files,                \* key -> File record
    le_subset,            \* the file the lineage query has returned
    pc_lineage,           \* the cell of the lineage notebook about to run
    file_registry,        \* the File registry of the instance: a sequence of records
    celltypist_file,      \* the file of the source table (index in the registry)
    fetch_path,           \* the branch the fetch cell has taken
    downloads,            \* number of downloads of the source table
    executions,           \* number of completed executions of the fetch cell
    pc_fetch,             \* the statement of the fetch cell about to run
    event_name,           \* the event that has triggered the workflow
    cache_hit,            \* output cache-hit of the step cache-postgres
    conclusions,          \* the conclusions of the steps of the job so far
    notifications,        \* the statuses posted to the Slack channel
    deployed              \* the docs deployment made by the job

celltypist_vars ==
    <<celltypist_df, celltype_bt, heap, public_records, public_records_dict,
      records_names, i, pending, db, pc, error, runs, first_result, search_results,
      parents, records>>

gene_link_vars ==
    <<pathway_records, all_genes, gene_records, gene_records_ids, linked_genes, link_i>>

enrichr_vars == <<go_bp, go_bp_parsed, go_i, pc_enrichr, gene_link_vars>>

lineage_vars ==
    <<adata, adata_subset, run_context, run_inputs, files, le_subset, pc_lineage>>

fetch_vars ==
    <<file_registry, celltypist_file, fetch_path, downloads, executions, pc_fetch>>

build_vars == <<event_name, cache_hit, conclusions, notifications, deployed>>

vars == <<celltypist_vars, enrichr_vars, lineage_vars, fetch_vars, build_vars>>

----------------------------------------------------------------------------
(* Bounds *)

MaxRows == 2

----------------------------------------------------------------------------
(* Strings *)

\* Python None for an attribute holding an atom (ontology_id, description)
None == "None"

\* Python None for an attribute holding a character string (synonyms);
\* no character string equals it, its element not being one character
NoneStr == <<"None">>

Upper == <<"A","B","C","D","E","F","G","H","I","J","K","L","M",
           "N","O","P","Q","R","S","T","U","V","W","X","Y","Z">>

Lower == <<"a","b","c","d","e","f","g","h","i","j","k","l","m",
           "n","o","p","q","r","s","t","u","v","w","x","y","z">>

Range(f) == {f[x] : x \in DOMAIN f}

\* the lower-case letter of every upper-case letter
ToLower == [c \in Range(Upper) |-> Lower[CHOOSE k \in DOMAIN Upper : Upper[k] = c]]

lowerChar(c) == IF c \in DOMAIN ToLower THEN ToLower[c] ELSE c

\* str.lower()
lower(s) == [k \in DOMAIN s |-> lowerChar(s[k])]

\* str.rstrip(c): removes every trailing occurrence of the character c
RECURSIVE rstrip(_, _)
rstrip(s, c) ==
    IF s # <<>> /\ s[Len(s)] = c
    THEN rstrip(SubSeq(s, 1, Len(s) - 1), c)
    ELSE s

\* str.split(sep): the sequence of the pieces between the separators
RECURSIVE split(_, _)
split(s, sep) ==
    IF \E k \in DOMAIN s : s[k] = sep
    THEN LET k == CHOOSE k \in DOMAIN s :
                      s[k] = sep /\ \A j \in 1..(k - 1) : s[j] # sep
         IN  <<SubSeq(s, 1, k - 1)>> \o split(SubSeq(s, k + 1, Len(s)), sep)
    ELSE <<s>>

\* sep.join(parts)
RECURSIVE join(_, _)
join(parts, sep) ==
    IF parts = <<>> THEN <<>>
    ELSE IF Len(parts) = 1 THEN parts[1]
    ELSE parts[1] \o <<sep>> \o join(Tail(parts), sep)

----------------------------------------------------------------------------
(* The data of the notebook *)

\* "T cells", the unmapped high term the notebook attaches to "T cell"
TCells == <<"T"," ","c","e","l","l","s">>

\* "T cell", the name of the public record
TCell == <<"T"," ","c","e","l","l">>

tcell == <<"t"," ","c","e","l","l">>
TCellss == <<"T"," ","c","e","l","l","s","s">>
Ms == <<"M","s">>
Mss == <<"M","s","s">>
M == <<"M">>
BLineage == <<"B","-","l","i","n","e","a","g","e">>

\* ontology ids of the public Cell Ontology and one it does not know
CL1 == "CL:0000084"
CL2 == "CL:0000097"
CLx == "CL:9999999"

OntologyIds == <<CL1, CL2>>

\* the synonyms fields the two public terms may carry together
SynonymsFields == {<<NoneStr, NoneStr>>, <<M, NoneStr>>, <<Ms, NoneStr>>, <<M, M>>}

\* the versions of the public ontology
Ontologies ==
    {[o \in Range(OntologyIds) |->
        IF o = CL1
        THEN [name |-> TCell, ontology_id |-> CL1, description |-> "p1",
              synonyms |-> s[1]]
        ELSE [name |-> Ms, ontology_id |-> CL2, description |-> "p2",
              synonyms |-> s[2]]]
     : s \in SynonymsFields}

\* "Low-hierarchy cell types"
Labels == {tcell, TCells, TCellss, Ms, Mss}

\* "High-hierarchy cell types"
Highs == {TCells, BLineage}

\* "Description": every label has its own text
Description(n) ==
    CASE n = tcell -> "d1"
      [] n = TCells -> "d2"
      [] n = TCellss -> "d3"
      [] n = Ms -> "d4"
      [] OTHER -> "d5"

\* the rows a table may hold
Rows ==
    {[name |-> n, ontology_id |-> o, description |-> Description(n), high |-> h]
        : n \in Labels, o \in Range(OntologyIds), h \in Highs}
    \cup {[name |-> Ms, ontology_id |-> CLx, description |-> Description(Ms),
           high |-> BLineage]}

Tables == UNION {[1..n -> Rows] : n \in 1..MaxRows}

\* the "parent" column: the high term, None where it equals the low term
parent(row) == IF row.high = row["name"] THEN NoneStr ELSE row.high

\* high_terms / low_terms / high_terms_umapped
high_terms(df) == {df[k].high : k \in DOMAIN df}
low_terms(df) == {df[k]["name"] : k \in DOMAIN df}

\* the difference computed from the high term of the first row only
high_terms_umapped_head(df) == {df[1].high} \ low_terms(df)

\* high_terms_umapped = set(high_terms).difference(low_terms)
high_terms_umapped(df) == high_terms(df) \ low_terms(df)

----------------------------------------------------------------------------
(* Records *)

\* lb.CellType(name=..., ontology_id=..., description=...)
CellType(name, ontology_id, description) ==
    [name |-> name, ontology_id |-> ontology_id, description |-> description,
     synonyms |-> NoneStr]

\* lb.CellType.from_values(celltypist_df.ontology_id, lb.CellType.ontology_id):
\* one record for every distinct ontology id of the table that the public
\* ontology knows, in the order of the ontology
from_values(df, bt) ==
    LET ids == {df[k].ontology_id : k \in DOMAIN df} \cap DOMAIN bt
        known(o) == o \in ids
    IN  [k \in DOMAIN SelectSeq(OntologyIds, known) |->
            bt[SelectSeq(OntologyIds, known)[k]]]

\* the pieces of a synonyms field
synonyms_of(rec) == IF rec.synonyms = NoneStr THEN <<>> ELSE split(rec.synonyms, "|")

\* the raw concatenation  synonyms += "|" + name
concat_synonym(rec, name) ==
    [rec EXCEPT !.synonyms =
        IF rec.synonyms = NoneStr THEN name ELSE rec.synonyms \o <<"|">> \o name]

\* record.add_synonym(name): the field becomes the join of the set of its
\* pieces and name, so name is added unless it already is a piece.  The order
\* of the joined pieces is not fixed by the library; the pieces are kept here
\* in the order of attachment, and nothing below reads the order.
add_synonym(rec, name) ==
    IF name \in Range(synonyms_of(rec))
    THEN rec
    ELSE [rec EXCEPT !.synonyms = join(Append(synonyms_of(rec), name), "|")]

\* dict item assignment  d[key] = value
setitem(d, key, value) ==
    [k \in DOMAIN d \cup {key} |-> IF k = key THEN value ELSE d[k]]

EmptyDict == [k \in {} |-> 0]

----------------------------------------------------------------------------
(* The state before the loop cell: the instance is new (lamin init), so no  *)
(* cell type is stored; the table is read; the public records are created  *)
(* from its ontology ids and are not stored yet.                           *)

\* the pathway notebook has not run
EnrichrIdle ==
    /\ go_bp = <<>>
    /\ go_bp_parsed = EmptyDict
    /\ go_i = 1
    /\ pc_enrichr = "off"
    /\ pathway_records = <<>>
    /\ all_genes = {}
    /\ gene_records = <<>>
    /\ gene_records_ids = EmptyDict
    /\ linked_genes = EmptyDict
    /\ link_i = 1

\* the lineage notebook has not run
LineageIdle ==
    /\ adata = <<>>
    /\ adata_subset = <<>>
    /\ run_context = None
    /\ run_inputs = EmptyDict
    /\ files = EmptyDict
    /\ le_subset = None
    /\ pc_lineage = "off"

\* the fetch cell of the CellTypist notebook is not followed
FetchIdle ==
    /\ file_registry = <<>>
    /\ celltypist_file = 0
    /\ fetch_path = None
    /\ downloads = 0
    /\ executions = 0
    /\ pc_fetch = "off"

\* the workflow has not been triggered
BuildIdle ==
    /\ event_name = None
    /\ cache_hit = FALSE
    /\ conclusions = <<>>
    /\ notifications = {}
    /\ deployed = None

Init ==
    /\ celltypist_df \in Tables
    /\ celltype_bt \in Ontologies
    /\ heap = from_values(celltypist_df, celltype_bt)
    /\ public_records = DOMAIN heap
    /\ public_records_dict = EmptyDict
    /\ records_names = EmptyDict
    /\ i = 1
    /\ pending = {}
    /\ db = EmptyDict
    /\ pc = "reconcile"
    /\ error = None
    /\ runs = 0
    /\ first_result = EmptyDict
    /\ search_results = EmptyDict
    /\ parents = {}
    /\ records = EmptyBag
    /\ FetchIdle
    /\ BuildIdle
    /\ EnrichrIdle
    /\ LineageIdle

----------------------------------------------------------------------------
(* The reconciliation cell *)

\* name == public_record.name: the comparison without lower()
name_matches_case_sensitive(name, public_record) ==
    name = public_record["name"]

\* name.lower() == public_record.name.lower()
name_matches(name, public_record) ==
    lower(name) = lower(public_record["name"])

\* name.lower().rstrip("s") == public_record.name.lower()
singular_matches(name, public_record) ==
    rstrip(lower(name), "s") = lower(public_record["name"])

\* the comparison with the synonyms as stored, not lower-cased
synonym_matches_as_stored(name, public_record) ==
    /\ public_record.synonyms # NoneStr
    /\ LET synonyms == split(public_record.synonyms, "|")
       IN  \E k \in DOMAIN synonyms :
               synonyms[k] \in {lower(name), rstrip(lower(name), "s")}

\* public_record.synonyms is not None and
\* any([i.lower() in {name.lower(), name.lower().rstrip("s")} for i in synonyms])
\* with synonyms = [s.lower() for s in public_record.synonyms.split("|")]
synonym_matches(name, public_record) ==
    /\ public_record.synonyms # NoneStr
    /\ LET synonyms == [k \in DOMAIN split(public_record.synonyms, "|") |->
                            lower(split(public_record.synonyms, "|")[k])]
       IN  \E k \in DOMAIN synonyms :
               lower(synonyms[k]) \in {lower(name), rstrip(lower(name), "s")}

\* the contents of the result: label -> attributes of its record
contents(names, h) == [n \in DOMAIN names |-> h[names[n]]]

\* records_names = {} ; public_records_dict = {r.ontology_id: r for r in public_records}
ResetLoop ==
    /\ records_names' = EmptyDict
    /\ public_records_dict' =
           [o \in {heap[r].ontology_id : r \in public_records} |->
               CHOOSE r \in public_records : heap[r].ontology_id = o]
    /\ i' = 1
    /\ pc' = "loop"
    /\ UNCHANGED <<celltypist_df, celltype_bt, heap, public_records, pending, db,
                   error, runs, first_result>>
    /\ UNCHANGED <<search_results, parents, records, enrichr_vars, lineage_vars, fetch_vars, build_vars>>

\* the notebook reaches the reconciliation cell
StartLoop ==
    /\ pc = "reconcile"
    /\ ResetLoop

\* the reconciliation cell is executed a second time, before the commit
Rerun ==
    /\ pc = "save"
    /\ runs = 1
    /\ ResetLoop

\* the end of one iteration: the next row, or the end of the cell
NextRow(names, h) ==
    /\ i' = i + 1
    /\ IF i = Len(celltypist_df)
       THEN /\ pc' = "save"
            /\ runs' = runs + 1
            /\ first_result' = IF runs = 0 THEN contents(names, h) ELSE first_result
       ELSE UNCHANGED <<pc, runs, first_result>>

InLoop == pc = "loop" /\ i \in DOMAIN celltypist_df

\* public_record = public_records_dict[ontology_id] raises KeyError: the
\* dict holds the ontology ids of the public records only
RowKeyError ==
    /\ InLoop
    /\ celltypist_df[i].ontology_id \notin DOMAIN public_records_dict
    /\ error' = "KeyError"
    /\ pc' = "failed"
    /\ UNCHANGED <<celltypist_df, celltype_bt, heap, public_records,
                   public_records_dict, records_names, i, pending, db, runs,
                   first_result>>
    /\ UNCHANGED <<search_results, parents, records, enrichr_vars, lineage_vars, fetch_vars, build_vars>>

\* the row keyed by the name of the public record instead of its label
RowUsePublic_keyed_by_public_name ==
    /\ InLoop
    /\ celltypist_df[i].ontology_id \in DOMAIN public_records_dict
    /\ LET name == celltypist_df[i]["name"]
           public_record == public_records_dict[celltypist_df[i].ontology_id]
       IN  /\ name_matches(name, heap[public_record])
           /\ records_names' = setitem(records_names, heap[public_record]["name"],
                                       public_record)
           /\ NextRow(records_names', heap)
    /\ UNCHANGED <<celltypist_df, celltype_bt, heap, public_records,
                   public_records_dict, pending, db, error>>
    /\ UNCHANGED <<search_results, parents, records, enrichr_vars, lineage_vars, fetch_vars, build_vars>>

\* the label also attached as a synonym when it matches the name
RowUsePublic_attach ==
    /\ InLoop
    /\ celltypist_df[i].ontology_id \in DOMAIN public_records_dict
    /\ LET name == celltypist_df[i]["name"]
           public_record == public_records_dict[celltypist_df[i].ontology_id]
       IN  /\ name_matches(name, heap[public_record])
           /\ heap' = [heap EXCEPT ![public_record] = add_synonym(@, name)]
           /\ records_names' = setitem(records_names, name, public_record)
           /\ NextRow(records_names', heap')
    /\ UNCHANGED <<celltypist_df, celltype_bt, public_records,
                   public_records_dict, pending, db, error>>
    /\ UNCHANGED <<search_results, parents, records, enrichr_vars, lineage_vars, fetch_vars, build_vars>>

\* if both name and ontology_id match public record, use public record
RowUsePublic ==
    /\ InLoop
    /\ celltypist_df[i].ontology_id \in DOMAIN public_records_dict
    /\ LET name == celltypist_df[i]["name"]
           public_record == public_records_dict[celltypist_df[i].ontology_id]
       IN  /\ name_matches(name, heap[public_record])
           /\ records_names' = setitem(records_names, name, public_record)
           /\ NextRow(records_names', heap)
    /\ UNCHANGED <<celltypist_df, celltype_bt, heap, public_records,
                   public_records_dict, pending, db, error>>
    /\ UNCHANGED <<search_results, parents, records, enrichr_vars, lineage_vars, fetch_vars, build_vars>>

\* the label concatenated to the synonyms field instead of add_synonym
RowAttachSingular_concat ==
    /\ InLoop
    /\ celltypist_df[i].ontology_id \in DOMAIN public_records_dict
    /\ LET name == celltypist_df[i]["name"]
           public_record == public_records_dict[celltypist_df[i].ontology_id]
       IN  /\ ~name_matches(name, heap[public_record])
           /\ singular_matches(name, heap[public_record])
           /\ heap' = [heap EXCEPT ![public_record] = concat_synonym(@, name)]
           /\ records_names' = setitem(records_names, name, public_record)
           /\ NextRow(records_names', heap')
    /\ UNCHANGED <<celltypist_df, celltype_bt, public_records,
                   public_records_dict, pending, db, error>>
    /\ UNCHANGED <<search_results, parents, records, enrichr_vars, lineage_vars, fetch_vars, build_vars>>

\* the synonyms field overwritten with the label
RowAttachSingular_overwrite ==
    /\ InLoop
    /\ celltypist_df[i].ontology_id \in DOMAIN public_records_dict
    /\ LET name == celltypist_df[i]["name"]
           public_record == public_records_dict[celltypist_df[i].ontology_id]
       IN  /\ ~name_matches(name, heap[public_record])
           /\ singular_matches(name, heap[public_record])
           /\ heap' = [heap EXCEPT ![public_record].synonyms = name]
           /\ records_names' = setitem(records_names, name, public_record)
           /\ NextRow(records_names', heap')
    /\ UNCHANGED <<celltypist_df, celltype_bt, public_records,
                   public_records_dict, pending, db, error>>
    /\ UNCHANGED <<search_results, parents, records, enrichr_vars, lineage_vars, fetch_vars, build_vars>>

\* if singular form of the Celltypist name matches public name
RowAttachSingular ==
    /\ InLoop
    /\ celltypist_df[i].ontology_id \in DOMAIN public_records_dict
    /\ LET name == celltypist_df[i]["name"]
           public_record == public_records_dict[celltypist_df[i].ontology_id]
       IN  /\ ~name_matches(name, heap[public_record])
           /\ singular_matches(name, heap[public_record])
           /\ heap' = [heap EXCEPT ![public_record] = add_synonym(@, name)]
           /\ records_names' = setitem(records_names, name, public_record)
           /\ NextRow(records_names', heap')
    /\ UNCHANGED <<celltypist_df, celltype_bt, public_records,
                   public_records_dict, pending, db, error>>
    /\ UNCHANGED <<search_results, parents, records, enrichr_vars, lineage_vars, fetch_vars, build_vars>>

\* the label concatenated to the synonyms field instead of add_synonym
RowAttachSynonym_concat ==
    /\ InLoop
    /\ celltypist_df[i].ontology_id \in DOMAIN public_records_dict
    /\ LET name == celltypist_df[i]["name"]
           public_record == public_records_dict[celltypist_df[i].ontology_id]
       IN  /\ ~name_matches(name, heap[public_record])
           /\ ~singular_matches(name, heap[public_record])
           /\ synonym_matches(name, heap[public_record])
           /\ heap' = [heap EXCEPT ![public_record] = concat_synonym(@, name)]
           /\ records_names' = setitem(records_names, name, public_record)
           /\ NextRow(records_names', heap')
    /\ UNCHANGED <<celltypist_df, celltype_bt, public_records,
                   public_records_dict, pending, db, error>>
    /\ UNCHANGED <<search_results, parents, records, enrichr_vars, lineage_vars, fetch_vars, build_vars>>

\* the label mapped to a copy of the public record that carries the synonym
RowAttachSynonym_copy ==
    /\ InLoop
    /\ celltypist_df[i].ontology_id \in DOMAIN public_records_dict
    /\ LET name == celltypist_df[i]["name"]
           public_record == public_records_dict[celltypist_df[i].ontology_id]
       IN  /\ ~name_matches(name, heap[public_record])
           /\ ~singular_matches(name, heap[public_record])
           /\ synonym_matches(name, heap[public_record])
           /\ heap' = Append(heap, add_synonym(heap[public_record], name))
           /\ records_names' = setitem(records_names, name, Len(heap'))
           /\ NextRow(records_names', heap')
    /\ UNCHANGED <<celltypist_df, celltype_bt, public_records,
                   public_records_dict, pending, db, error>>
    /\ UNCHANGED <<search_results, parents, records, enrichr_vars, lineage_vars, fetch_vars, build_vars>>

\* if any of the public matches celltypist name
RowAttachSynonym ==
    /\ InLoop
    /\ celltypist_df[i].ontology_id \in DOMAIN public_records_dict
    /\ LET name == celltypist_df[i]["name"]
           public_record == public_records_dict[celltypist_df[i].ontology_id]
       IN  /\ ~name_matches(name, heap[public_record])
           /\ ~singular_matches(name, heap[public_record])
           /\ synonym_matches(name, heap[public_record])
           /\ heap' = [heap EXCEPT ![public_record] = add_synonym(@, name)]
           /\ records_names' = setitem(records_names, name, public_record)
           /\ NextRow(records_names', heap')
    /\ UNCHANGED <<celltypist_df, celltype_bt, public_records,
                   public_records_dict, pending, db, error>>
    /\ UNCHANGED <<search_results, parents, records, enrichr_vars, lineage_vars, fetch_vars, build_vars>>

\* the record created with the description of the public record
RowCreateRecord_public_description ==
    /\ InLoop
    /\ celltypist_df[i].ontology_id \in DOMAIN public_records_dict
    /\ LET name == celltypist_df[i]["name"]
           public_record == public_records_dict[celltypist_df[i].ontology_id]
       IN  /\ ~name_matches(name, heap[public_record])
           /\ ~singular_matches(name, heap[public_record])
           /\ ~synonym_matches(name, heap[public_record])
           /\ heap' = Append(heap, CellType(name, celltypist_df[i].ontology_id,
                                            heap[public_record].description))
           /\ records_names' = setitem(records_names, name, Len(heap'))
           /\ NextRow(records_names', heap')
    /\ UNCHANGED <<celltypist_df, celltype_bt, public_records,
                   public_records_dict, pending, db, error>>
    /\ UNCHANGED <<search_results, parents, records, enrichr_vars, lineage_vars, fetch_vars, build_vars>>

\* a record cached by ontology id: a row that matches nothing is mapped to the
\* record an earlier row has created for the same ontology id
RowCreateRecord_reuse_by_id ==
    /\ InLoop
    /\ celltypist_df[i].ontology_id \in DOMAIN public_records_dict
    /\ LET name == celltypist_df[i]["name"]
           public_record == public_records_dict[celltypist_df[i].ontology_id]
           made == {o \in DOMAIN heap \ public_records :
                       heap[o].ontology_id = celltypist_df[i].ontology_id}
       IN  /\ ~name_matches(name, heap[public_record])
           /\ ~singular_matches(name, heap[public_record])
           /\ ~synonym_matches(name, heap[public_record])
           /\ heap' = IF made = {}
                      THEN Append(heap, CellType(name, celltypist_df[i].ontology_id,
                                                 celltypist_df[i].description))
                      ELSE heap
           /\ records_names' = setitem(records_names, name,
                                       IF made = {} THEN Len(heap')
                                       ELSE CHOOSE o \in made : TRUE)
           /\ NextRow(records_names', heap')
    /\ UNCHANGED <<celltypist_df, celltype_bt, public_records,
                   public_records_dict, pending, db, error>>
    /\ UNCHANGED <<search_results, parents, records, enrichr_vars, lineage_vars, fetch_vars, build_vars>>

\* create a record only based on Celltypist metadata
RowCreateRecord ==
    /\ InLoop
    /\ celltypist_df[i].ontology_id \in DOMAIN public_records_dict
    /\ LET name == celltypist_df[i]["name"]
           public_record == public_records_dict[celltypist_df[i].ontology_id]
       IN  /\ ~name_matches(name, heap[public_record])
           /\ ~singular_matches(name, heap[public_record])
           /\ ~synonym_matches(name, heap[public_record])
           /\ heap' = Append(heap, CellType(name, celltypist_df[i].ontology_id,
                                            celltypist_df[i].description))
           /\ records_names' = setitem(records_names, name, Len(heap'))
           /\ NextRow(records_names', heap')
    /\ UNCHANGED <<celltypist_df, celltype_bt, public_records,
                   public_records_dict, pending, db, error>>
    /\ UNCHANGED <<search_results, parents, records, enrichr_vars, lineage_vars, fetch_vars, build_vars>>

----------------------------------------------------------------------------
(* The commit and the unmapped high terms *)

\* every record the loop has made, not only those the result refers to
records_to_save_all(names) == SetToBag(DOMAIN heap)

\* records = list(records_names.values()): one entry for every label
records_to_save_list(names) ==
    [o \in Range(names) |-> Cardinality({n \in DOMAIN names : names[n] = o})]

\* records = set(records_names.values())
records_to_save(names) == SetToBag(Range(names))

\* ln.save(rs): the attributes of the objects are written to the registry
save(store, rs, h) ==
    [o \in DOMAIN store \cup rs |-> IF o \in rs THEN h[o] ELSE store[o]]

\* records = set(records_names.values()) ; ln.save(records)
Save ==
    /\ pc = "save"
    /\ records' = records_to_save(records_names)
    /\ db' = save(db, BagToSet(records'), heap)
    /\ pending' = high_terms_umapped(celltypist_df)
    /\ pc' = "search"
    /\ UNCHANGED <<celltypist_df, celltype_bt, heap, public_records,
                   public_records_dict, records_names, i, error, runs, first_result>>
    /\ UNCHANGED <<search_results, parents, enrichr_vars, lineage_vars, fetch_vars, build_vars>>

\* celltype_bt.search(term, top_hit=True): a term of the public ontology, or none
Hits == DOMAIN celltype_bt \cup {None}

\* search_results = [] ; for term in list(high_terms_umapped):
\*     search_results.append(celltype_bt.search(term, top_hit=True))
Search ==
    /\ pc = "search"
    /\ search_results' \in [pending -> Hits]
    /\ pc' = IF pending = {} THEN "parents" ELSE "unmapped"
    /\ UNCHANGED <<celltypist_df, celltype_bt, heap, public_records,
                   public_records_dict, records_names, i, pending, db, error,
                   runs, first_result, parents, records>>
    /\ UNCHANGED <<enrichr_vars, lineage_vars, fetch_vars, build_vars>>

\* the end of one iteration over high_terms_umapped
NextUnmapped(name) ==
    /\ pending' = pending \ {name}
    /\ pc' = IF pending' = {} THEN "parents" ELSE "unmapped"

\* the record of "T cell" keyed by its own name instead of the label
UnmappedTCells_keyed_by_public_name ==
    /\ pc = "unmapped"
    /\ TCells \in pending
    /\ \/ \E o \in DOMAIN db :
              /\ db[o]["name"] = TCell
              /\ heap' = [heap EXCEPT ![o] = add_synonym(@, TCells)]
              /\ db' = save(db, {o}, heap')
              /\ records_names' = setitem(records_names, TCell, o)
       \/ /\ \A o \in DOMAIN db : db[o]["name"] # TCell
          /\ LET term == IF \E t \in DOMAIN celltype_bt : celltype_bt[t]["name"] = TCell
                         THEN celltype_bt[CHOOSE t \in DOMAIN celltype_bt :
                                              celltype_bt[t]["name"] = TCell]
                         ELSE CellType(TCell, None, None)
             IN  heap' = Append(heap, add_synonym(term, TCells))
          /\ db' = save(db, {Len(heap')}, heap')
          /\ records_names' = setitem(records_names, TCell, Len(heap'))
    /\ NextUnmapped(TCells)
    /\ UNCHANGED <<celltypist_df, celltype_bt, public_records, public_records_dict,
                   i, error, runs, first_result>>
    /\ UNCHANGED <<search_results, parents, records, enrichr_vars, lineage_vars, fetch_vars, build_vars>>

\* if name == "T cells": record = lb.CellType.from_bionty(name="T cell");
\* record.add_synonym(name); record.save(); records_names[name] = record
\* from_bionty returns the registered record of that name when there is one,
\* and otherwise a new record of the public term of that name.
UnmappedTCells ==
    /\ pc = "unmapped"
    /\ TCells \in pending
    /\ \/ \E o \in DOMAIN db :
              /\ db[o]["name"] = TCell
              /\ heap' = [heap EXCEPT ![o] = add_synonym(@, TCells)]
              /\ db' = save(db, {o}, heap')
              /\ records_names' = setitem(records_names, TCells, o)
       \/ /\ \A o \in DOMAIN db : db[o]["name"] # TCell
          /\ LET term == IF \E t \in DOMAIN celltype_bt : celltype_bt[t]["name"] = TCell
                         THEN celltype_bt[CHOOSE t \in DOMAIN celltype_bt :
                                              celltype_bt[t]["name"] = TCell]
                         ELSE CellType(TCell, None, None)
             IN  heap' = Append(heap, add_synonym(term, TCells))
          /\ db' = save(db, {Len(heap')}, heap')
          /\ records_names' = setitem(records_names, TCells, Len(heap'))
    /\ NextUnmapped(TCells)
    /\ UNCHANGED <<celltypist_df, celltype_bt, public_records, public_records_dict,
                   i, error, runs, first_result>>
    /\ UNCHANGED <<search_results, parents, records, enrichr_vars, lineage_vars, fetch_vars, build_vars>>

\* the record of an unmapped high term named by the lower-cased label
UnmappedOther_lower_name ==
    /\ pc = "unmapped"
    /\ \E name \in pending :
          /\ name # TCells
          /\ heap' = Append(heap, CellType(lower(name), None, None))
          /\ db' = save(db, {Len(heap')}, heap')
          /\ records_names' = setitem(records_names, name, Len(heap'))
          /\ NextUnmapped(name)
    /\ UNCHANGED <<celltypist_df, celltype_bt, public_records, public_records_dict,
                   i, error, runs, first_result>>
    /\ UNCHANGED <<search_results, parents, records, enrichr_vars, lineage_vars, fetch_vars, build_vars>>

\* the top hit of the search decides: the label is attached to the hit
UnmappedOther_by_search ==
    /\ pc = "unmapped"
    /\ \E name \in pending :
          /\ name # TCells
          /\ heap' = Append(heap, IF search_results[name] = None
                                  THEN CellType(name, None, None)
                                  ELSE add_synonym(celltype_bt[search_results[name]],
                                                   name))
          /\ db' = save(db, {Len(heap')}, heap')
          /\ records_names' = setitem(records_names, name, Len(heap'))
          /\ NextUnmapped(name)
    /\ UNCHANGED <<celltypist_df, celltype_bt, public_records, public_records_dict,
                   i, error, runs, first_result>>
    /\ UNCHANGED <<search_results, parents, records, enrichr_vars, lineage_vars, fetch_vars, build_vars>>

\* the record of an unmapped high term made and never saved
UnmappedOther_not_saved ==
    /\ pc = "unmapped"
    /\ \E name \in pending :
          /\ name # TCells
          /\ heap' = Append(heap, CellType(name, None, None))
          /\ db' = db
          /\ records_names' = setitem(records_names, name, Len(heap'))
          /\ NextUnmapped(name)
    /\ UNCHANGED <<celltypist_df, celltype_bt, public_records, public_records_dict,
                   i, error, runs, first_result>>
    /\ UNCHANGED <<search_results, parents, records, enrichr_vars, lineage_vars, fetch_vars, build_vars>>

\* else: record = lb.CellType(name=name); record.save(); records_names[name] = record
UnmappedOther ==
    /\ pc = "unmapped"
    /\ \E name \in pending :
          /\ name # TCells
          /\ heap' = Append(heap, CellType(name, None, None))
          /\ db' = save(db, {Len(heap')}, heap')
          /\ records_names' = setitem(records_names, name, Len(heap'))
          /\ NextUnmapped(name)
    /\ UNCHANGED <<celltypist_df, celltype_bt, public_records, public_records_dict,
                   i, error, runs, first_result>>
    /\ UNCHANGED <<search_results, parents, records, enrichr_vars, lineage_vars, fetch_vars, build_vars>>

----------------------------------------------------------------------------

(* The parent records *)

\* for _, row in celltypist_df.iterrows(): the loop starts
StartParents ==
    /\ pc = "parents"
    /\ i' = 1
    /\ pc' = "link"
    /\ UNCHANGED <<celltypist_df, celltype_bt, heap, public_records,
                   public_records_dict, records_names, pending, db, error, runs,
                   first_result, search_results, parents, records>>
    /\ UNCHANGED <<enrichr_vars, lineage_vars, fetch_vars, build_vars>>

\* record = records_names[row["name"]]
\* if row["parent"] is not None:
\*     parent_record = records_names[row["parent"]]   (KeyError if not a key)
\*     record.parents.add(parent_record)
LinkParent ==
    /\ pc = "link"
    /\ i \in DOMAIN celltypist_df
    /\ LET row == celltypist_df[i]
       IN  IF parent(row) # NoneStr /\ parent(row) \notin DOMAIN records_names
           THEN /\ error' = "KeyError"
                /\ pc' = "failed"
                /\ UNCHANGED <<i, parents>>
           ELSE /\ parents' =
                     IF parent(row) # NoneStr
                     THEN parents \cup {<<records_names[row["name"]],
                                          records_names[parent(row)]>>}
                     ELSE parents
                /\ i' = i + 1
                /\ pc' = IF i = Len(celltypist_df) THEN "done" ELSE "link"
                /\ error' = error
    /\ UNCHANGED <<celltypist_df, celltype_bt, heap, public_records,
                   public_records_dict, records_names, pending, db, runs,
                   first_result, search_results, records>>
    /\ UNCHANGED <<enrichr_vars, lineage_vars, fetch_vars, build_vars>>

----------------------------------------------------------------------------

Next ==
    \/ StartLoop
    \/ RowKeyError
    \/ RowUsePublic
    \/ RowAttachSingular
    \/ RowAttachSynonym
    \/ RowCreateRecord
    \/ Save
    \/ Search
    \/ UnmappedTCells
    \/ UnmappedOther
    \/ StartParents
    \/ LinkParent

Spec == Init /\ [][Next]_vars

\* the reconciliation cell alone, executed once or twice
NextRerun ==
    \/ StartLoop
    \/ RowKeyError
    \/ RowUsePublic
    \/ RowAttachSingular
    \/ RowAttachSynonym
    \/ RowCreateRecord
    \/ Rerun

SpecRerun == Init /\ [][NextRerun]_vars

----------------------------------------------------------------------------
(* Properties of the reconciliation loop.  A step that completes the       *)
(* iteration of row i is one with i' = i + 1.                              *)

\* the row being processed, its label and the public record of its ontology id
CurRow == celltypist_df[i]
CurName == CurRow["name"]
Resolved == InLoop /\ CurRow.ontology_id \in DOMAIN public_records_dict
CurPublic == public_records_dict[CurRow.ontology_id]
RowDone == i' = i + 1

\* row k of the table has an ontology id with a public record
ResolvedRow(k) == celltypist_df[k].ontology_id \in DOMAIN public_records_dict
PublicOf(k) == public_records_dict[celltypist_df[k].ontology_id]

\* the label is the name followed by one "s", compared case-insensitively
IsPluralOf(label, name) == lower(label) = lower(name) \o <<"s">>

\* the label with one trailing "s" removed
StripOneS(label) ==
    IF label # <<>> /\ label[Len(label)] = "s"
    THEN SubSeq(label, 1, Len(label) - 1)
    ELSE label

\* the lower-cased label without its trailing "s" characters
SingularForm(label) == rstrip(lower(label), "s")

\* the label or its s-stripped form equals a synonym, compared case-insensitively
MatchesSynonym(label, rec) ==
    \E k \in DOMAIN synonyms_of(rec) :
        lower(synonyms_of(rec)[k]) \in {lower(label), SingularForm(label)}

\* the step maps the label to the public record and has the label among its synonyms
AttachedToPublic ==
    /\ CurName \in DOMAIN records_names'
    /\ records_names'[CurName] = CurPublic
    /\ CurName \in Range(synonyms_of(heap'[CurPublic]))
    /\ Len(heap') = Len(heap)

\* C1: a row whose label equals the name of its public record when both are
\* lower-cased is mapped to that public record, and processing it adds no
\* synonym to the record (no record changes, none is created).
C1_ExactMatchUsesPublicRecord ==
    [][(Resolved /\ lower(CurName) = lower(heap[CurPublic]["name"]) /\ RowDone)
          => /\ CurName \in DOMAIN records_names'
             /\ records_names'[CurName] = CurPublic
             /\ heap' = heap]_vars

\* C1 witness: the loop has mapped to its public record a label that differs
\* from the name in case only, and a label that equals the name and also
\* matches a synonym of the record, whose synonyms are those of the ontology.
C1_Witness ==
    /\ pc = "save"
    /\ \E k \in DOMAIN celltypist_df :
          /\ ResolvedRow(k)
          /\ name_matches(celltypist_df[k]["name"], heap[PublicOf(k)])
          /\ celltypist_df[k]["name"] # heap[PublicOf(k)]["name"]
          /\ records_names[celltypist_df[k]["name"]] = PublicOf(k)
    /\ \E k \in DOMAIN celltypist_df :
          /\ ResolvedRow(k)
          /\ name_matches(celltypist_df[k]["name"], heap[PublicOf(k)])
          /\ synonym_matches(celltypist_df[k]["name"], heap[PublicOf(k)])
          /\ records_names[celltypist_df[k]["name"]] = PublicOf(k)
          /\ heap[PublicOf(k)] = celltype_bt[celltypist_df[k].ontology_id]

\* C2: a row whose label is the name of its public record followed by one
\* trailing "s" (compared case-insensitively) is attached as a synonym of the
\* public record and mapped to it, whatever the name ends in.
C2_PluralAttachedAsSynonym ==
    [][(Resolved /\ IsPluralOf(CurName, heap[CurPublic]["name"]) /\ RowDone)
          => AttachedToPublic]_vars

C5_KeysAreTheLabels ==
    pc = "save" => DOMAIN records_names = low_terms(celltypist_df)

\* C5 witness: the loop has processed a table that repeats a label and holds a
\* label that differs from its lower-cased and s-stripped forms.
C5_Witness ==
    /\ pc = "save"
    /\ Cardinality(DOMAIN records_names) < Len(celltypist_df)
    /\ \E n \in DOMAIN records_names :
          /\ lower(n) # n
          /\ SingularForm(n) # lower(n)
          /\ lower(n) \notin DOMAIN records_names

\* a label of two rows that the loop binds to two different public records
AmbiguousLabel(df) ==
    \E k, m \in DOMAIN df :
        /\ df[k]["name"] = df[m]["name"]
        /\ df[k].ontology_id # df[m].ontology_id
        /\ \A r \in {k, m} :
              /\ df[r].ontology_id \in DOMAIN celltype_bt
              /\ LET term == celltype_bt[df[r].ontology_id]
                 IN  \/ name_matches(df[r]["name"], term)
                     \/ singular_matches(df[r]["name"], term)
                     \/ synonym_matches(df[r]["name"], term)

\* C6: a table that binds one label to two different public records makes the
\* reconciliation fail with AmbiguousMatch: the loop does not complete with one
\* of the two records silently kept for the label.
C6_AmbiguousMatchRaised ==
    (AmbiguousLabel(celltypist_df) /\ pc \notin {"reconcile", "loop", "failed"})
        => error = "AmbiguousMatch"

\* C7: a row whose ontology id has no public record does not end the run: no
\* exception is raised, and once the row is processed its label has an entry
\* in the result.
C7_MissingIdentifierNotFatal ==
    \A k \in DOMAIN celltypist_df :
        celltypist_df[k].ontology_id \notin DOMAIN celltype_bt =>
            /\ error = None
            /\ (pc = "loop" /\ i > k) => celltypist_df[k]["name"] \in DOMAIN records_names

\* C8: building the result writes nothing to the registry: neither a step of
\* the reconciliation loop nor a step that handles an unmapped high term
\* changes what is stored.
C8_NoWriteBeforeCommit ==
    [][(pc \in {"reconcile", "loop", "unmapped"} => db' = db)]_vars

\* C9: a second execution of the reconciliation cell on the same table yields
\* the result of the first: the same keys, each mapped to a record with the same
\* name, ontology id, description and synonyms.
C9_RerunSameResult ==
    (pc = "save" /\ runs = 2) => contents(records_names, heap) = first_result

\* C9 witness: the second execution has ended on a table for which the first had
\* attached a synonym and created a record.
C9_Witness ==
    /\ pc = "save"
    /\ runs = 2
    /\ \E n \in DOMAIN records_names :
          /\ records_names[n] \in public_records
          /\ n \in Range(synonyms_of(heap[records_names[n]]))
          /\ n \notin Range(synonyms_of(celltype_bt[heap[records_names[n]].ontology_id]))
    /\ \E n \in DOMAIN records_names : records_names[n] \notin public_records

\* no piece occurs twice in a sequence of pieces
NoDuplicates(pieces) ==
    \A k, m \in DOMAIN pieces : pieces[k] = pieces[m] => k = m

\* C10: every synonym occurs at most once in the synonyms of each record.
C10_SynonymsAtMostOnce ==
    \A o \in DOMAIN heap : NoDuplicates(synonyms_of(heap[o]))

\* C10 witness: a label that two rows attach to the same public record, and a
\* label that already was a synonym of the public record it is attached to.
C10_Witness ==
    /\ pc \in {"save", "unmapped", "parents"}
    /\ \E k, m \in DOMAIN celltypist_df :
          /\ k # m
          /\ celltypist_df[k] = celltypist_df[m]
          /\ ResolvedRow(k)
          /\ ~name_matches(celltypist_df[k]["name"], heap[PublicOf(k)])
          /\ records_names[celltypist_df[k]["name"]] = PublicOf(k)
          /\ celltypist_df[k]["name"] \notin
                 Range(synonyms_of(celltype_bt[celltypist_df[k].ontology_id]))
          /\ celltypist_df[k]["name"] \in Range(synonyms_of(heap[PublicOf(k)]))
    /\ \E o \in DOMAIN heap : Len(synonyms_of(heap[o])) > 1

\* C11: attaching synonyms is append-only: no step removes a synonym from a
\* record or changes the name, ontology id or description of a record, so
\* every synonym a public record had before the reconciliation is still one
\* of its synonyms afterwards.
C11_SynonymsAppendOnly ==
    [][\A o \in DOMAIN heap :
          /\ o \in DOMAIN heap'
          /\ heap'[o]["name"] = heap[o]["name"]
          /\ heap'[o].ontology_id = heap[o].ontology_id
          /\ heap'[o].description = heap[o].description
          /\ Range(synonyms_of(heap[o])) \subseteq Range(synonyms_of(heap'[o]))]_vars

\* C11 witness: a public record that had a synonym in the ontology has been
\* given a label as a further synonym and still has the synonym it had.
C11_Witness ==
    /\ pc \in {"save", "unmapped", "parents"}
    /\ \E o \in public_records :
          LET term == celltype_bt[heap[o].ontology_id]
          IN  /\ term.synonyms # NoneStr
              /\ Range(synonyms_of(term)) \subseteq Range(synonyms_of(heap[o]))
              /\ Range(synonyms_of(term)) # Range(synonyms_of(heap[o]))
              /\ \E n \in DOMAIN records_names :
                    /\ records_names[n] = o
                    /\ SingularForm(n) = lower(term["name"])
                    /\ n \in Range(synonyms_of(heap[o]))

\* no later row of the table has the label of row k
LastRow(k) ==
    \A m \in DOMAIN celltypist_df :
        m > k => celltypist_df[m]["name"] # celltypist_df[k]["name"]

\* the label matches the term by its name, its s-stripped form or a synonym
MatchesTerm(label, term) ==
    \/ lower(label) = lower(term["name"])
    \/ SingularForm(label) = lower(term["name"])
    \/ MatchesSynonym(label, term)

C13_OntologyIdUnique ==
    \A o1, o2 \in DOMAIN db :
        (db[o1].ontology_id # None /\ db[o1].ontology_id = db[o2].ontology_id)
            => o1 = o2

\* C13, amended: no two stored records carry the same name together with the
\* same ontology id; a record created from a row carries the ontology id of
\* the row, which the public record and other created records may carry too.
C13_NameAndOntologyIdUnique ==
    \A o1, o2 \in DOMAIN db :
        (/\ db[o1].ontology_id # None
         /\ db[o1].ontology_id = db[o2].ontology_id
         /\ db[o1]["name"] = db[o2]["name"])
            => o1 = o2

\* C13 witness: the registry holds a public record and a record created from a
\* row, with the same ontology id and different names.
C13_Witness ==
    /\ pc = "parents"
    /\ \E o1, o2 \in DOMAIN db :
          /\ o1 \in public_records
          /\ o2 \notin public_records
          /\ db[o1].ontology_id # None
          /\ db[o1].ontology_id = db[o2].ontology_id
          /\ db[o1]["name"] # db[o2]["name"]

\* C14: no record has its own name among its synonyms.
C14_NameNotOwnSynonym ==
    \A o \in DOMAIN heap : heap[o]["name"] \notin Range(synonyms_of(heap[o]))

\* C14 witness: the unmapped high term "T cells" has been attached to the
\* stored record named "T cell", to which the loop had mapped a label equal
\* to its name up to case.
C14_Witness ==
    /\ pc = "parents"
    /\ TCells \in DOMAIN records_names
    /\ heap[records_names[TCells]]["name"] = TCell
    /\ TCells \in Range(synonyms_of(heap[records_names[TCells]]))
    /\ \E n \in DOMAIN records_names :
          /\ n # TCells
          /\ records_names[n] = records_names[TCells]
          /\ lower(n) = lower(TCell)

\* C15: an unmapped high term other than "T cells" is given a new record of
\* its own, with the label as its name and no ontology id, description or
\* synonyms, and the record is stored.
C15_UnmappedCreatesStandalone ==
    [][\A name \in pending :
          (pc = "unmapped" /\ name # TCells /\ name \notin pending')
              => /\ name \in DOMAIN records_names'
                 /\ records_names'[name] \notin DOMAIN heap
                 /\ records_names'[name] \in DOMAIN heap'
                 /\ heap'[records_names'[name]] = CellType(name, None, None)
                 /\ records_names'[name] \in DOMAIN db'
                 /\ db'[records_names'[name]] = CellType(name, None, None)
                 /\ \A o \in DOMAIN heap : heap'[o] = heap[o]]_vars

\* C15 witness: the unmapped step has ended with the high term "B-cell
\* lineage" mapped to a stored record of that name without ontology id.
C15_Witness ==
    /\ pc = "parents"
    /\ BLineage \in high_terms_umapped(celltypist_df)
    /\ BLineage \in DOMAIN records_names
    /\ records_names[BLineage] \in DOMAIN db
    /\ db[records_names[BLineage]]["name"] = BLineage
    /\ db[records_names[BLineage]].ontology_id = None

\* C16: when the unmapped step has ended, every high term that is not a low
\* term is a key of the result.
C16_UnmappedAreKeys ==
    pc = "parents" => high_terms_umapped(celltypist_df) \subseteq DOMAIN records_names

\* C16 witness: the unmapped step has ended for a table with two high terms
\* that are not low terms.
C16_Witness ==
    /\ pc = "parents"
    /\ Cardinality(high_terms_umapped(celltypist_df)) = 2
    /\ high_terms_umapped(celltypist_df) \subseteq DOMAIN records_names

\* the label is the name followed by two or more "s", compared case-insensitively
HasExtraS(label, name) ==
    \E k \in 2..Len(label) : lower(label) = lower(name) \o [j \in 1..k |-> "s"]

\* C19: the plural rule removes one trailing "s" only: a row whose label is the
\* name of its public record followed by two or more "s", and matches no
\* synonym of it, is not attached to the public record.
C19_OneTrailingSRemoved ==
    [][(/\ Resolved
        /\ HasExtraS(CurName, heap[CurPublic]["name"])
        /\ ~MatchesSynonym(CurName, heap[CurPublic])
        /\ RowDone)
          => /\ heap'[CurPublic] = heap[CurPublic]
             /\ records_names'[CurName] # CurPublic]_vars

\* the entry of an unmapped high term, as its label alone determines it
UnmappedEntry(n) ==
    LET o == records_names[n]
    IN  /\ o \in DOMAIN db
        /\ db[o] = heap[o]
        /\ IF n = TCells
           THEN /\ heap[o]["name"] = TCell
                /\ TCells \in Range(synonyms_of(heap[o]))
           ELSE heap[o] = CellType(n, None, None)

\* C17: the search is advisory: whatever it has returned, when the unmapped
\* step has ended "T cells" is attached to the record named "T cell" and every
\* other unmapped high term has a record of its own made from its label, so
\* runs that differ in the search results only end with the same entries.
C17_SearchIsAdvisory ==
    pc = "parents" =>
        \A n \in high_terms_umapped(celltypist_df) :
            n \in DOMAIN records_names /\ UnmappedEntry(n)

\* C17 witness: the unmapped step has ended after a search that found a public
\* term for "B-cell lineage" and none for "T cells".
C17_Witness ==
    /\ pc = "parents"
    /\ high_terms_umapped(celltypist_df) = {TCells, BLineage}
    /\ search_results[BLineage] \in DOMAIN celltype_bt
    /\ search_results[TCells] = None
    /\ heap[records_names[BLineage]] = CellType(BLineage, None, None)
    /\ TCells \in Range(synonyms_of(heap[records_names[TCells]]))

----------------------------------------------------------------------------
(* The pathway notebook (src/docs/biology/enrichr.ipynb): the keys of the   *)
(* GO_Biological_Process_2023 library, "<name> (<id>)", are parsed and the  *)
(* library is re-keyed by ontology id.                                      *)

\* number of pathways of the library
MaxKeys == 2

\* str.replace(old, new): every non-overlapping occurrence, from the left
RECURSIVE replace(_, _, _)
replace(s, old, new) ==
    IF Len(s) < Len(old) THEN s
    ELSE IF SubSeq(s, 1, Len(old)) = old
         THEN new \o replace(SubSeq(s, Len(old) + 1, Len(s)), old, new)
         ELSE <<s[1]>> \o replace(Tail(s), old, new)

\* id = key.split(" ")[-1].replace("(", "").replace(")", "")
\* name = key.replace(f" ({id})", "") ; return (id, name)
parse_ontology_id_from_keys(key) ==
    LET pieces == split(key, " ")
        id == replace(replace(pieces[Len(pieces)], <<"(">>, <<>>), <<")">>, <<>>)
        name == replace(key, <<" ", "(">> \o id \o <<")">>, <<>>)
    IN  <<id, name>>

\* ontology ids: without space and parenthesis
PathwayIds == {<<"X">>, <<"G", "O", ":", "1">>}

\* pathway names: plain, with spaces, with parentheses, with a parenthesised
\* id inside, empty
PathwayNames ==
    { <<"a">>,
      <<"a", " ", "b">>,
      <<"a", " ", "(", "b", ")">>,
      <<"(", "a", ")", " ", "b">>,
      <<"a", "(", "X", ")">>,
      <<"a", " ", "(", "X", ")">>,
      <<"a", " ", "(", "X", ")", " ", "b">>,
      <<>> }

\* the key of the library for a pathway: "<name> (<id>)"
LibraryKey(name, id) == name \o <<" ", "(">> \o id \o <<")">>

LibraryKeys == {LibraryKey(name, id) : name \in PathwayNames, id \in PathwayIds}

\* gene lists of the library
GeneLists == {<<"G1">>, <<"G1", "G2">>}

\* go_bp = gp.get_library(...): a dict, its keys are distinct
Libraries ==
    UNION {{lib \in [1..n -> [key : LibraryKeys, genes : GeneLists]] :
               \A a, b \in 1..n : lib[a].key = lib[b].key => a = b}
           : n \in 1..MaxKeys}

\* the CellTypist notebook has not run
CelltypistIdle ==
    /\ celltypist_df = <<>>
    /\ celltype_bt = EmptyDict
    /\ heap = <<>>
    /\ public_records = {}
    /\ public_records_dict = EmptyDict
    /\ records_names = EmptyDict
    /\ i = 1
    /\ pending = {}
    /\ db = EmptyDict
    /\ pc = "off"
    /\ error = None
    /\ runs = 0
    /\ first_result = EmptyDict
    /\ search_results = EmptyDict
    /\ parents = {}
    /\ records = EmptyBag

\* the library has been fetched
InitEnrichr ==
    /\ go_bp \in Libraries
    /\ go_bp_parsed = EmptyDict
    /\ go_i = 1
    /\ pc_enrichr = "parse"
    /\ pathway_records = <<>>
    /\ all_genes = {}
    /\ gene_records = <<>>
    /\ gene_records_ids = EmptyDict
    /\ linked_genes = EmptyDict
    /\ link_i = 1
    /\ FetchIdle
    /\ BuildIdle
    /\ CelltypistIdle
    /\ LineageIdle

\* go_bp_parsed = {}
StartParse ==
    /\ pc_enrichr = "parse"
    /\ go_bp_parsed' = EmptyDict
    /\ go_i' = 1
    /\ pc_enrichr' = "loop"
    /\ UNCHANGED <<go_bp, gene_link_vars, celltypist_vars, lineage_vars, fetch_vars,
                   build_vars>>

\* for key, genes in go_bp.items():
\*     id, name = parse_ontology_id_from_keys(key)
\*     go_bp_parsed[id] = (name, genes)
ParseItem ==
    /\ pc_enrichr = "loop"
    /\ go_i \in DOMAIN go_bp
    /\ LET parsed == parse_ontology_id_from_keys(go_bp[go_i].key)
       IN  go_bp_parsed' = setitem(go_bp_parsed, parsed[1],
                                   <<parsed[2], go_bp[go_i].genes>>)
    /\ go_i' = go_i + 1
    /\ pc_enrichr' = IF go_i = Len(go_bp) THEN "parsed" ELSE "loop"
    /\ UNCHANGED <<go_bp, gene_link_vars, celltypist_vars, lineage_vars, fetch_vars,
                   build_vars>>

\* C18: an item whose key is "<name> (<id>)", for any pathway name and any id
\* without space and parenthesis, is parsed into the pair (id, name): the
\* entry made for it is under id and holds name, and name, " (", id, ")"
\* joined give back the key.
C18_KeyParsedIntoIdAndName ==
    [][\A name \in PathwayNames, id \in PathwayIds :
          (/\ pc_enrichr = "loop"
           /\ go_i' = go_i + 1
           /\ go_bp[go_i].key = LibraryKey(name, id))
              => /\ id \in DOMAIN go_bp_parsed'
                 /\ go_bp_parsed'[id][1] = name
                 /\ LibraryKey(go_bp_parsed'[id][1], id) = go_bp[go_i].key]_vars

----------------------------------------------------------------------------
\* the re-keying loop has ended
Parsed == pc_enrichr \notin {"off", "parse", "loop"}

\* C28: re-keying the library by ontology id loses no pathway: go_bp_parsed
\* has as many entries as the library has keys, and for every key of the
\* library the entry under its parsed id holds the parsed name and the gene
\* list of that key.
C28_NoPathwayLost ==
    Parsed =>
        /\ Cardinality(DOMAIN go_bp_parsed) = Len(go_bp)
        /\ \A k \in DOMAIN go_bp :
              LET parsed == parse_ontology_id_from_keys(go_bp[k].key)
              IN  /\ parsed[1] \in DOMAIN go_bp_parsed
                  /\ go_bp_parsed[parsed[1]] = <<parsed[2], go_bp[k].genes>>

(* The pathway notebook, continued: the pathways and the genes of the       *)
(* library are registered and every pathway is linked to its genes.         *)

\* go_bp_parsed.keys(): the ids in the order of their first insertion
RECURSIVE keys_of_parsed(_, _)
keys_of_parsed(lib, acc) ==
    IF lib = <<>> THEN acc
    ELSE LET id == parse_ontology_id_from_keys(Head(lib).key)[1]
         IN  keys_of_parsed(Tail(lib),
                            IF id \in Range(acc) THEN acc ELSE Append(acc, id))

\* lb.Pathway.from_values(values, lb.Pathway.ontology_id): a record per value
Pathway_from_values(values) ==
    [k \in DOMAIN values |-> [ontology_id |-> values[k]]]

\* lb.Gene.from_values(values, lb.Gene.symbol): a record per value; the values
\* come from a set, so the records are kept without an order
Gene_from_values(values) == {[symbol |-> g] : g \in values}

\* dict.get(key): None if the key is absent
get(d, key) == IF key \in DOMAIN d THEN d[key] ELSE None

\* pathway_records = lb.Pathway.from_values(go_bp_parsed.keys(), lb.Pathway.ontology_id)
\* ln.save(pathway_records, parents=False)
RegisterPathways ==
    /\ pc_enrichr = "parsed"
    /\ pathway_records' = Pathway_from_values(keys_of_parsed(go_bp, <<>>))
    /\ pc_enrichr' = "genes"
    /\ UNCHANGED <<go_bp, go_bp_parsed, go_i, all_genes, gene_records,
                   gene_records_ids, linked_genes, link_i>>
    /\ UNCHANGED <<celltypist_vars, lineage_vars, fetch_vars, build_vars>>

\* all_genes = {g for genes in go_bp.values() for g in genes}
all_genes_of(lib) == UNION {Range(lib[k].genes) : k \in DOMAIN lib}

\* all_genes = ... ; gene_records = lb.Gene.from_values(all_genes, lb.Gene.symbol)
\* ln.save(gene_records)
RegisterGenes ==
    /\ pc_enrichr = "genes"
    /\ all_genes' = all_genes_of(go_bp)
    /\ gene_records' = Gene_from_values(all_genes')
    /\ pc_enrichr' = "index"
    /\ UNCHANGED <<go_bp, go_bp_parsed, go_i, pathway_records,
                   gene_records_ids, linked_genes, link_i>>
    /\ UNCHANGED <<celltypist_vars, lineage_vars, fetch_vars, build_vars>>

\* gene_records_ids = {record.symbol: record for record in gene_records}
IndexGenes ==
    /\ pc_enrichr = "index"
    /\ gene_records_ids' =
           [s \in {r.symbol : r \in gene_records} |->
               CHOOSE r \in gene_records : r.symbol = s]
    /\ link_i' = 1
    /\ pc_enrichr' = IF pathway_records = <<>> THEN "linked" ELSE "link"
    /\ UNCHANGED <<go_bp, go_bp_parsed, go_i, pathway_records, all_genes,
                   gene_records, linked_genes>>
    /\ UNCHANGED <<celltypist_vars, lineage_vars, fetch_vars, build_vars>>

\* for pathway_record in pathway_records:
\*     pathway_genes = go_bp_parsed.get(pathway_record.ontology_id)[1]
\*     pathway_genes_records = [gene_records_ids.get(gene) for gene in pathway_genes]
\*     pathway_record.genes.set(pathway_genes_records)
LinkGenes ==
    /\ pc_enrichr = "link"
    /\ link_i \in DOMAIN pathway_records
    /\ LET pathway_record == pathway_records[link_i]
           pathway_genes == get(go_bp_parsed, pathway_record.ontology_id)[2]
           pathway_genes_records ==
               [k \in DOMAIN pathway_genes |-> get(gene_records_ids, pathway_genes[k])]
       IN  linked_genes' =
               setitem(linked_genes, pathway_record.ontology_id, pathway_genes_records)
    /\ link_i' = link_i + 1
    /\ pc_enrichr' = IF link_i = Len(pathway_records) THEN "linked" ELSE "link"
    /\ UNCHANGED <<go_bp, go_bp_parsed, go_i, pathway_records, all_genes,
                   gene_records, gene_records_ids>>
    /\ UNCHANGED <<celltypist_vars, lineage_vars, fetch_vars, build_vars>>

NextEnrichr ==
    \/ StartParse
    \/ ParseItem
    \/ RegisterPathways
    \/ RegisterGenes
    \/ IndexGenes
    \/ LinkGenes

SpecEnrichr == InitEnrichr /\ [][NextEnrichr]_vars

\* the symbols the library lists for the pathway of an ontology id
LibrarySymbols(id) ==
    UNION {Range(go_bp[k].genes) :
              k \in {j \in DOMAIN go_bp :
                        parse_ontology_id_from_keys(go_bp[j].key)[1] = id}}

\* C29: after the linking loop, the genes linked to every registered pathway
\* record are the gene records of the symbols the library lists for that
\* pathway: every entry given to the link setter is a gene record (none is
\* null), every listed symbol has its record among them, and no other gene is
\* linked.
C29_LinkedGenesAreLibraryGenes ==
    pc_enrichr = "linked" =>
        \A k \in DOMAIN pathway_records :
            LET id == pathway_records[k].ontology_id
            IN  /\ id \in DOMAIN linked_genes
                /\ Range(linked_genes[id]) \subseteq gene_records
                /\ Range(linked_genes[id]) =
                       {r \in gene_records : r.symbol \in LibrarySymbols(id)}

----------------------------------------------------------------------------

(* The lineage notebook (second notebook of src/docs/biology/enrichr.ipynb, *)
(* and src/docs/biology/lineage.ipynb): a dataset is registered under the   *)
(* notebook's run, then loaded, subset and registered again under the run   *)
(* of a pipeline transform.                                                 *)

\* number of cells (rows of .obs) of the example dataset
MaxCells == 2

\* values of adata.obs.cell_type and adata.obs.disease
CellTypeNames == {"T cell", "hematopoietic stem cell", "hepatocyte"}
Diseases == {"liver lymphoma", "chronic kidney disease", "cardiac ventricle disorder"}

\* adata = ln.dev.datasets.anndata_with_obs()
Datasets ==
    UNION {[1..n -> [cell_type : CellTypeNames, disease : Diseases]] : n \in 1..MaxCells}

\* the keys of the two files, as sequences of characters
FileKey ==
    <<"m", "i", "n", "i", "_", "a", "n", "n", "d", "a", "t", "a">> \o
    <<"_", "w", "i", "t", "h", "_", "o", "b", "s", ".", "h", "5", "a", "d">>
SubsetKey == <<"s", "u", "b", "s", "e", "t", "/">> \o FileKey

\* the transform of the notebook, and the pipeline transform
\* ln.Transform(type="pipeline", name="subset_to_T_cells_and_liver_lymphoma", version="0.1.0")
NotebookTransform == [type |-> "notebook", name |-> "Data lineage of an AnnData object"]
PipelineTransform ==
    [type |-> "pipeline", name |-> "subset_to_T_cells_and_liver_lymphoma",
     version |-> "0.1.0"]

\* ln.track(transform): a new run of the transform becomes the current run
track(transform) ==
    /\ run_context' = [transform |-> transform,
                       run |-> Cardinality(DOMAIN run_inputs) + 1]
    /\ run_inputs' = setitem(run_inputs, Cardinality(DOMAIN run_inputs) + 1, {})

\* ln.File(data, key=key): a File record of the current run and its transform
File(key) ==
    [key |-> key, suffix |-> ".h5ad", transform |-> run_context.transform,
     run |-> run_context.run, cell_types |-> {}, saved |-> FALSE]

\* file.backed(is_run_input=True): the file becomes an input of the current run
track_run_input(key) ==
    [run_inputs EXCEPT ![run_context.run] = @ \cup {key}]

\* lb.CellType.from_values(obs.cell_type, lb.CellType.name)
cell_types_of(obs) == {obs[k].cell_type : k \in DOMAIN obs}

\* subset_obs = adata.obs.cell_type.isin(["T cell", "hematopoietic stem cell"])
\*              & adata.obs.disease.isin(["liver lymphoma", "chronic kidney disease"])
subset_obs(cell) ==
    /\ cell.cell_type \in {"T cell", "hematopoietic stem cell"}
    /\ cell.disease \in {"liver lymphoma", "chronic kidney disease"}

\* the example dataset has been fetched, nothing is tracked or registered
InitLineage ==
    /\ adata \in Datasets
    /\ adata_subset = <<>>
    /\ run_context = None
    /\ run_inputs = EmptyDict
    /\ files = EmptyDict
    /\ le_subset = None
    /\ pc_lineage = "track"
    /\ FetchIdle
    /\ BuildIdle
    /\ CelltypistIdle
    /\ EnrichrIdle

\* ln.track()
TrackNotebook ==
    /\ pc_lineage = "track"
    /\ track(NotebookTransform)
    /\ pc_lineage' = "file"
    /\ UNCHANGED <<adata, adata_subset, files, le_subset,
                   celltypist_vars, enrichr_vars, fetch_vars, build_vars>>

\* file = ln.File(adata, key="mini_anndata_with_obs.h5ad")
NewFile ==
    /\ pc_lineage = "file"
    /\ files' = setitem(files, FileKey, File(FileKey))
    /\ pc_lineage' = "save_file"
    /\ UNCHANGED <<adata, adata_subset, run_context, run_inputs,
                   le_subset,
                   celltypist_vars, enrichr_vars, fetch_vars, build_vars>>

\* ln.save(file)
SaveFile ==
    /\ pc_lineage = "save_file"
    /\ files' = [files EXCEPT ![FileKey].saved = TRUE]
    /\ pc_lineage' = "link"
    /\ UNCHANGED <<adata, adata_subset, run_context, run_inputs,
                   le_subset,
                   celltypist_vars, enrichr_vars, fetch_vars, build_vars>>

\* cell_types = lb.CellType.from_values(adata.obs.cell_type, lb.CellType.name)
\* ln.save(cell_types) ; file.cell_types.set(cell_types)
LinkCellTypes ==
    /\ pc_lineage = "link"
    /\ files' = [files EXCEPT ![FileKey].cell_types = cell_types_of(adata)]
    /\ pc_lineage' = "transform"
    /\ UNCHANGED <<adata, adata_subset, run_context, run_inputs,
                   le_subset,
                   celltypist_vars, enrichr_vars, fetch_vars, build_vars>>

\* the transform is created and never made the tracked transform
TrackPipeline_not_tracked ==
    /\ pc_lineage = "transform"
    /\ pc_lineage' = "load"
    /\ UNCHANGED <<adata, adata_subset, files, run_context, run_inputs,
                   le_subset,
                   celltypist_vars, enrichr_vars, fetch_vars, build_vars>>

\* transform = ln.Transform(type="pipeline", ...) ; ln.track(transform)
TrackPipeline ==
    /\ pc_lineage = "transform"
    /\ track(PipelineTransform)
    /\ pc_lineage' = "load"
    /\ UNCHANGED <<adata, adata_subset, files, le_subset,
                   celltypist_vars, enrichr_vars, fetch_vars, build_vars>>

\* file = ln.File.select(key="mini_anndata_with_obs.h5ad").one()
\* adata = file.backed(is_run_input=True)
LoadBacked ==
    /\ pc_lineage = "load"
    /\ FileKey \in DOMAIN files
    /\ files[FileKey].saved
    /\ run_inputs' = track_run_input(FileKey)
    /\ pc_lineage' = "subset"
    /\ UNCHANGED <<adata, adata_subset, files, run_context,
                   le_subset,
                   celltypist_vars, enrichr_vars, fetch_vars, build_vars>>

\* adata_subset = adata[subset_obs]
Subset ==
    /\ pc_lineage = "subset"
    /\ adata_subset' = SelectSeq(adata, subset_obs)
    /\ pc_lineage' = "file_subset"
    /\ UNCHANGED <<adata, files, run_context, run_inputs,
                   le_subset,
                   celltypist_vars, enrichr_vars, fetch_vars, build_vars>>

\* file_subset = ln.File(adata_subset.to_memory(), key="subset/mini_anndata_with_obs.h5ad")
NewSubsetFile ==
    /\ pc_lineage = "file_subset"
    /\ files' = setitem(files, SubsetKey, File(SubsetKey))
    /\ pc_lineage' = "save_subset"
    /\ UNCHANGED <<adata, adata_subset, run_context, run_inputs,
                   le_subset,
                   celltypist_vars, enrichr_vars, fetch_vars, build_vars>>

\* file_subset.save()
SaveSubsetFile ==
    /\ pc_lineage = "save_subset"
    /\ files' = [files EXCEPT ![SubsetKey].saved = TRUE]
    /\ pc_lineage' = "link_subset"
    /\ UNCHANGED <<adata, adata_subset, run_context, run_inputs,
                   le_subset,
                   celltypist_vars, enrichr_vars, fetch_vars, build_vars>>

\* cell_types = lb.CellType.from_values(adata_subset.obs.cell_type, lb.CellType.name)
\* file_subset.cell_types.set(cell_types)
LinkSubsetCellTypes ==
    /\ pc_lineage = "link_subset"
    /\ files' = [files EXCEPT ![SubsetKey].cell_types = cell_types_of(adata_subset)]
    /\ pc_lineage' = "query"
    /\ UNCHANGED <<adata, adata_subset, run_context, run_inputs,
                   le_subset,
                   celltypist_vars, enrichr_vars, fetch_vars, build_vars>>

\* str.startswith(prefix)
startswith(s, prefix) ==
    Len(s) >= Len(prefix) /\ SubSeq(s, 1, Len(prefix)) = prefix

\* the cell types the query names
QueriedCellTypes == {"hematopoietic stem cell", "T cell"}

\* ln.File.select(suffix=".h5ad", key__startswith="subset", cell_types__in=[...]):
\* the stored files with that suffix, a key with that prefix, and a linked
\* cell type that is in the list
select(suffix, key__startswith, cell_types__in) ==
    {k \in DOMAIN files :
        /\ files[k].saved
        /\ files[k].suffix = suffix
        /\ startswith(k, key__startswith)
        /\ files[k].cell_types \cap cell_types__in # {}}

\* cell_types_bt_lookup = lb.CellType.lookup(): the registered cell types
cell_types_bt_lookup == files[FileKey].cell_types

\* cell_types_bt_lookup.hematopoietic_stem_cell or .t_cell of a cell type that
\* is not registered raises AttributeError
QueryLookupError ==
    /\ pc_lineage = "query"
    /\ ~(QueriedCellTypes \subseteq cell_types_bt_lookup)
    /\ pc_lineage' = "failed"
    /\ UNCHANGED <<adata, adata_subset, run_context, run_inputs, files, le_subset,
                   celltypist_vars, enrichr_vars, fetch_vars, build_vars>>

\* le_subset = ln.File.select(...).first(): a file of the selection, or None
Query ==
    /\ pc_lineage = "query"
    /\ QueriedCellTypes \subseteq cell_types_bt_lookup
    /\ LET found == select(".h5ad", <<"s", "u", "b", "s", "e", "t">>, QueriedCellTypes)
       IN  \/ found = {} /\ le_subset' = None
           \/ \E k \in found : le_subset' = k
    /\ pc_lineage' = "done"
    /\ UNCHANGED <<adata, adata_subset, run_context, run_inputs, files,
                   celltypist_vars, enrichr_vars, fetch_vars, build_vars>>

NextLineage ==
    \/ TrackNotebook
    \/ NewFile
    \/ SaveFile
    \/ LinkCellTypes
    \/ TrackPipeline
    \/ LoadBacked
    \/ Subset
    \/ NewSubsetFile
    \/ SaveSubsetFile
    \/ LinkSubsetCellTypes
    \/ QueryLookupError
    \/ Query

SpecLineage == InitLineage /\ [][NextLineage]_vars

C21_QueryReturnsFileWithBoth ==
    (pc_lineage = "done" /\ le_subset # None)
        => /\ files[le_subset].suffix = ".h5ad"
           /\ startswith(le_subset, <<"s", "u", "b", "s", "e", "t">>)
           /\ QueriedCellTypes \subseteq files[le_subset].cell_types

\* the labels of the table are pairwise distinct
DistinctLabels(df) ==
    \A k, m \in DOMAIN df : df[k]["name"] = df[m]["name"] => k = m

\* the synonyms the public term of an ontology id ends with, told from the
\* rows as a set: those of the ontology and the labels that match the term
\* otherwise than by its name
SynonymsAfter(df, oid) ==
    Range(synonyms_of(celltype_bt[oid])) \cup
    {df[k]["name"] : k \in {m \in DOMAIN df :
        /\ df[m].ontology_id = oid
        /\ lower(df[m]["name"]) # lower(celltype_bt[oid]["name"])
        /\ MatchesTerm(df[m]["name"], celltype_bt[oid])}}

\* C22: the outcome of the loop does not depend on the order of the rows: for
\* a table of pairwise distinct labels it is what the set of rows prescribes.
\* A label that matches the public term of its ontology id is mapped to the
\* public record, any other to a record made of its own row, and the synonyms
\* of every public record are those of the ontology and the matching labels;
\* so every permutation of the rows ends with the same mapping and synonyms.
C22_RowOrderIndependent ==
    (pc = "save" /\ DistinctLabels(celltypist_df)) =>
        /\ \A k \in DOMAIN celltypist_df :
              LET label == celltypist_df[k]["name"]
                  oid == celltypist_df[k].ontology_id
                  rec == heap[records_names[label]]
              IN  IF MatchesTerm(label, celltype_bt[oid])
                  THEN /\ records_names[label] \in public_records
                       /\ rec["name"] = celltype_bt[oid]["name"]
                       /\ rec.ontology_id = oid
                       /\ rec.description = celltype_bt[oid].description
                  ELSE /\ records_names[label] \notin public_records
                       /\ rec = CellType(label, oid, celltypist_df[k].description)
        /\ \A o \in public_records :
              Range(synonyms_of(heap[o])) =
                  SynonymsAfter(celltypist_df, heap[o].ontology_id)

\* C22 witness: the loop has ended on a table of distinct labels in which an
\* earlier row has attached a synonym to the public record that a later row
\* of the same ontology id is matched against.
C22_Witness ==
    /\ pc = "save"
    /\ DistinctLabels(celltypist_df)
    /\ \E k, m \in DOMAIN celltypist_df :
          /\ k < m
          /\ celltypist_df[k].ontology_id = celltypist_df[m].ontology_id
          /\ celltypist_df[k]["name"] \in Range(synonyms_of(heap[PublicOf(k)]))
          /\ celltypist_df[k]["name"] \notin
                 Range(synonyms_of(celltype_bt[celltypist_df[k].ontology_id]))
          /\ celltypist_df[m]["name"] \in Range(synonyms_of(heap[PublicOf(m)]))
          /\ celltypist_df[m]["name"] \notin
                 Range(synonyms_of(celltype_bt[celltypist_df[m].ontology_id]))

\* C23: after the parent-linking step no record is its own parent.
C23_NoSelfParent ==
    \A link \in parents : link[1] # link[2]

\* C24: while the parent-linking step runs, the parent label of every row that
\* has one is a key of the result, and the lookup of the parent record does
\* not fail.
C24_ParentLabelsAreKeys ==
    pc \in {"parents", "link", "done"} =>
        /\ error = None
        /\ \A k \in DOMAIN celltypist_df :
              parent(celltypist_df[k]) # NoneStr =>
                  parent(celltypist_df[k]) \in DOMAIN records_names

\* C24 witness: the parent links are added for a table with a parent that is a
\* low term of another row and a parent that is an unmapped high term.
C24_Witness ==
    /\ pc = "done"
    /\ \E k \in DOMAIN celltypist_df :
          /\ parent(celltypist_df[k]) \in low_terms(celltypist_df)
          /\ <<records_names[celltypist_df[k]["name"]],
               records_names[parent(celltypist_df[k])]>> \in parents
    /\ \E k \in DOMAIN celltypist_df :
          /\ parent(celltypist_df[k]) \in high_terms_umapped(celltypist_df)
          /\ <<records_names[celltypist_df[k]["name"]],
               records_names[parent(celltypist_df[k])]>> \in parents

\* C25: a parent link is added between stored records only: when a step adds
\* a link, the record and its parent record are in the registry already.
C25_LinksBetweenStoredRecords ==
    [][\A link \in parents' \ parents :
          link[1] \in DOMAIN db /\ link[2] \in DOMAIN db]_vars

\* C25 witness: a link has been added from a record the batch save has stored
\* to a record the unmapped step has made and stored.
C25_Witness ==
    /\ pc = "done"
    /\ \E link \in parents :
          /\ link[1] # link[2]
          /\ link[1] \in DOMAIN db
          /\ link[2] \in DOMAIN db
          /\ \E n \in high_terms_umapped(celltypist_df) :
                n # TCells /\ records_names[n] = link[2]

\* C26: the commit saves each record of the result once: the collection passed
\* to save holds every record the result refers to, each of them one time,
\* also a public record that several labels are mapped to, and all of them
\* are stored.
C26_EachRecordSavedOnce ==
    pc = "search" =>
        /\ BagToSet(records) = Range(records_names)
        /\ \A o \in Range(records_names) : CopiesIn(o, records) = 1
        /\ Range(records_names) \subseteq DOMAIN db

\* C26 witness: the commit has run on a result in which two labels are mapped
\* to one public record and another label to a record of its own.
C26_Witness ==
    /\ pc = "search"
    /\ \E n1, n2 \in DOMAIN records_names :
          /\ n1 # n2
          /\ records_names[n1] = records_names[n2]
          /\ records_names[n1] \in public_records
          /\ CopiesIn(records_names[n1], records) = 1

----------------------------------------------------------------------------
(* The fetch cell of the CellTypist notebook (src/unnamed/part_000, lines   *)
(* 161-171): the source table is looked up in the File registry by its      *)
(* description; if no file is found it is downloaded and saved, otherwise   *)
(* the file found is loaded.                                                *)

\* number of files of the registry before the first execution
MaxFiles == 2

\* number of executions of the fetch cell
MaxFetches == 3

description == "CellTypist Pan Immune Atlas v2: basic cell type information"

\* the hash of the table behind celltypist_source_v2_url
celltypist_source_v2 == "Basic_celltype_information.xlsx"

\* descriptions of the files of a registry: none, that of the table, another
Descriptions == {None, description, "another description"}

\* contents of the files of a registry, told apart by their hash
Contents == {celltypist_source_v2, "another table"}

\* the registries the first execution may meet
Registries ==
    UNION {[1..n -> [description : Descriptions, hash : Contents]] : n \in 0..MaxFiles}

\* ln.File.select(description=description): the files with that description
select_description(registry, d) ==
    {k \in DOMAIN registry : registry[k].description = d}

\* ln.File(celltypist_df): a file of the table, no description and no key given
File_of_df(df) == [description |-> None, hash |-> df]

\* Python None for celltypist_file, whose other values are indices of the registry
NoFile == 0

InitFetch ==
    /\ file_registry \in Registries
    /\ celltypist_file = NoFile
    /\ fetch_path = None
    /\ downloads = 0
    /\ executions = 0
    /\ pc_fetch = "select"
    /\ CelltypistIdle
    /\ EnrichrIdle
    /\ LineageIdle
    /\ BuildIdle

\* celltypist_file = ln.File.select(description=description).one_or_none()
\* (one_or_none raises when several files are found)
SelectFile ==
    /\ pc_fetch = "select"
    /\ LET found == select_description(file_registry, description)
       IN  IF Cardinality(found) > 1
           THEN /\ pc_fetch' = "failed"
                /\ UNCHANGED celltypist_file
           ELSE /\ celltypist_file' =
                       IF found = {} THEN NoFile ELSE CHOOSE k \in found : TRUE
                /\ pc_fetch' = "branch"
    /\ UNCHANGED <<file_registry, fetch_path, downloads, executions>>
    /\ UNCHANGED <<celltypist_vars, enrichr_vars, lineage_vars, build_vars>>

\* if celltypist_file is None:
\*     celltypist_df = pd.read_excel(celltypist_source_v2_url)
\*     celltypist_file = ln.File(celltypist_df).save()
\* (the library stores a new file, or returns the stored file of the same hash)
Download ==
    /\ pc_fetch = "branch"
    /\ celltypist_file = NoFile
    /\ downloads' = downloads + 1
    /\ LET new == File_of_df(celltypist_source_v2)
       IN  \/ /\ file_registry' = Append(file_registry, new)
              /\ celltypist_file' = Len(file_registry) + 1
           \/ \E k \in DOMAIN file_registry :
                 /\ file_registry[k].hash = new.hash
                 /\ celltypist_file' = k
                 /\ UNCHANGED file_registry
    /\ fetch_path' = "download"
    /\ executions' = executions + 1
    /\ pc_fetch' = "done"
    /\ UNCHANGED <<celltypist_vars, enrichr_vars, lineage_vars, build_vars>>

\* else: celltypist_df = celltypist_file.load().head()
Load ==
    /\ pc_fetch = "branch"
    /\ celltypist_file # NoFile
    /\ fetch_path' = "load"
    /\ executions' = executions + 1
    /\ pc_fetch' = "done"
    /\ UNCHANGED <<file_registry, celltypist_file, downloads>>
    /\ UNCHANGED <<celltypist_vars, enrichr_vars, lineage_vars, build_vars>>

\* the cell is executed again, against the same registry
FetchAgain ==
    /\ pc_fetch = "done"
    /\ executions < MaxFetches
    /\ pc_fetch' = "select"
    /\ UNCHANGED <<file_registry, celltypist_file, fetch_path, downloads, executions>>
    /\ UNCHANGED <<celltypist_vars, enrichr_vars, lineage_vars, build_vars>>

NextFetch ==
    \/ SelectFile
    \/ Download
    \/ Load
    \/ FetchAgain

SpecFetch == InitFetch /\ [][NextFetch]_vars

\* C27: the fetch is a get-or-create: over the executions of the fetch cell
\* against one registry the table is downloaded at most once, and an execution
\* that follows a download finds the stored file by its description, so that
\* it takes the load path.
C27_FetchIsGetOrCreate ==
    /\ downloads <= 1
    /\ (downloads >= 1 /\ pc_fetch = "branch") => celltypist_file # NoFile

----------------------------------------------------------------------------
(* The build job (src/.github/workflows/build.yml): its steps run in the    *)
(* order of the file; a step without a status function in its condition     *)
(* runs only while no earlier step has failed.                              *)

\* on: push, pull_request, repository_dispatch
Events == {"push", "pull_request", "repository_dispatch"}

\* steps: the name (or command, or action) and the condition of every step
Steps ==
    << [name |-> "Checkout main", if |-> "success()"],
       [name |-> "Checkout lndocs", if |-> "success()"],
       [name |-> "Setup Python", if |-> "success()"],
       [name |-> "Cache pre-commit", if |-> "success()"],
       [name |-> "Cache postgres", if |-> "success()"],
       [name |-> "Cache postgres miss", if |-> "cache-hit != 'true'"],
       [name |-> "Cache postgres use", if |-> "cache-hit == 'true'"],
       [name |-> "Install Python dependencies", if |-> "success()"],
       [name |-> "Install apt-get dependencies", if |-> "success()"],
       [name |-> "Configure AWS", if |-> "success()"],
       [name |-> "nox -s install", if |-> "success()"],
       [name |-> "nox -s build", if |-> "success()"],
       [name |-> "slack-notify SUCCESS", if |-> "success()"],
       [name |-> "slack-notify FAILURE", if |-> "failure()"],
       [name |-> "Deploy docs", if |-> "matrix.python-version == '3.9'"] >>

\* matrix: python-version: ["3.9"]
python_version == "3.9"

\* success(): no earlier step has failed or been cancelled
success(c) == \A k \in DOMAIN c : c[k] \in {"success", "skipped"}

\* cancelled(): the job has been cancelled
cancelled(c) == \E k \in DOMAIN c : c[k] = "cancelled"

\* failure(): an earlier step has failed (and the job is not cancelled)
failure(c) == (\E k \in DOMAIN c : c[k] = "failure") /\ ~cancelled(c)

\* the step about to run
step == Len(conclusions) + 1

\* the condition of a step; one without a status function stands under success()
Condition(s) ==
    CASE s.if = "success()" -> success(conclusions)
      [] s.if = "failure()" -> failure(conclusions)
      [] s.if = "cache-hit != 'true'" -> success(conclusions) /\ ~cache_hit
      [] s.if = "cache-hit == 'true'" -> success(conclusions) /\ cache_hit
      [] s.if = "matrix.python-version == '3.9'" ->
             success(conclusions) /\ python_version = "3.9"

\* the workflow is triggered and the job starts
InitBuild ==
    /\ event_name \in Events
    /\ cache_hit = FALSE
    /\ conclusions = <<>>
    /\ notifications = {}
    /\ deployed = None
    /\ CelltypistIdle
    /\ EnrichrIdle
    /\ LineageIdle
    /\ FetchIdle

\* a step whose condition is false is skipped
SkipStep ==
    /\ step \in DOMAIN Steps
    /\ ~Condition(Steps[step])
    /\ conclusions' = Append(conclusions, "skipped")
    /\ UNCHANGED <<event_name, cache_hit, notifications, deployed>>
    /\ UNCHANGED <<celltypist_vars, enrichr_vars, lineage_vars, fetch_vars>>

\* a step that checks out, sets up, installs, configures, runs nox
RunStep ==
    /\ step \in DOMAIN Steps
    /\ Steps[step].name \notin {"Cache postgres", "slack-notify SUCCESS",
                                "slack-notify FAILURE", "Deploy docs"}
    /\ Condition(Steps[step])
    /\ \E conclusion \in {"success", "failure"} :
          conclusions' = Append(conclusions, conclusion)
    /\ UNCHANGED <<event_name, cache_hit, notifications, deployed>>
    /\ UNCHANGED <<celltypist_vars, enrichr_vars, lineage_vars, fetch_vars>>

\* id: cache-postgres: the step sets the output cache-hit
CachePostgres ==
    /\ step \in DOMAIN Steps
    /\ Steps[step].name = "Cache postgres"
    /\ Condition(Steps[step])
    /\ \E conclusion \in {"success", "failure"} :
          /\ conclusions' = Append(conclusions, conclusion)
          /\ IF conclusion = "success"
             THEN cache_hit' \in BOOLEAN
             ELSE cache_hit' = FALSE
    /\ UNCHANGED <<event_name, notifications, deployed>>
    /\ UNCHANGED <<celltypist_vars, enrichr_vars, lineage_vars, fetch_vars>>

\* uses: voxmedia/github-action-slack-notify-build@v1, status: SUCCESS | FAILURE
\* (a step that fails has posted nothing)
NotifySlack ==
    /\ step \in DOMAIN Steps
    /\ Steps[step].name \in {"slack-notify SUCCESS", "slack-notify FAILURE"}
    /\ Condition(Steps[step])
    /\ LET status == IF Steps[step].name = "slack-notify SUCCESS"
                     THEN "SUCCESS" ELSE "FAILURE"
       IN  \E conclusion \in {"success", "failure"} :
              /\ conclusions' = Append(conclusions, conclusion)
              /\ notifications' = IF conclusion = "success"
                                  THEN notifications \cup {status}
                                  ELSE notifications
    /\ UNCHANGED <<event_name, cache_hit, deployed>>
    /\ UNCHANGED <<celltypist_vars, enrichr_vars, lineage_vars, fetch_vars>>

\* Deploy docs: production-deploy: github.event_name == 'push'
DeployDocs ==
    /\ step \in DOMAIN Steps
    /\ Steps[step].name = "Deploy docs"
    /\ Condition(Steps[step])
    /\ \E conclusion \in {"success", "failure"} :
          /\ conclusions' = Append(conclusions, conclusion)
          /\ deployed' = IF conclusion = "failure" THEN None
                         ELSE IF event_name = "push" THEN "production"
                         ELSE "preview"
    /\ UNCHANGED <<event_name, cache_hit, notifications>>
    /\ UNCHANGED <<celltypist_vars, enrichr_vars, lineage_vars, fetch_vars>>

\* timeout-minutes: 15: the job is cancelled while a step runs
Timeout ==
    /\ step \in DOMAIN Steps
    /\ Condition(Steps[step])
    /\ conclusions' = Append(conclusions, "cancelled")
    /\ UNCHANGED <<event_name, cache_hit, notifications, deployed>>
    /\ UNCHANGED <<celltypist_vars, enrichr_vars, lineage_vars, fetch_vars>>

NextBuild ==
    \/ SkipStep
    \/ RunStep
    \/ CachePostgres
    \/ NotifySlack
    \/ DeployDocs
    \/ Timeout

SpecBuild == InitBuild /\ [][NextBuild]_vars

\* the job has ended
JobDone == Len(conclusions) = Len(Steps)

\* the index of the step of a name
StepOf(name) == CHOOSE k \in DOMAIN Steps : Steps[k].name = name

\* C30: the Slack notification reflects the final outcome of the job: in
\* every run where a step fails (the docs deploy step included) a FAILURE
\* notification is posted, and a SUCCESS notification is posted only in runs
\* where every step succeeds. Runs that are cancelled, or whose FAILURE
\* notification step itself fails, are left aside in the first part: nothing
\* can be posted there.
C30_NotificationReflectsOutcome ==
    JobDone =>
        /\ (/\ \E k \in DOMAIN conclusions : conclusions[k] = "failure"
            /\ conclusions[StepOf("slack-notify FAILURE")] # "failure"
            /\ ~cancelled(conclusions))
               => "FAILURE" \in notifications
        /\ "SUCCESS" \in notifications =>
               \A k \in DOMAIN conclusions : conclusions[k] \in {"success", "skipped"}

====
